---- MODULE Spec2Model ----
(***************************************************************************)
(* PEFT layer injection of nemo.collections.llm: AdapterWrapper and its    *)
(* state-dict protocol (adapter/base.py), the LoRA transform and the       *)
(* AdapterParallelAdd forward (peft/lora.py), and the freeze-then-walk     *)
(* orchestration peft_model_transform (adapter/base.py).                   *)
(*                                                                         *)
(* Four state machines share the module:                                   *)
(*   Spec         the model tree, the parallel state and model_fn;         *)
(*   SpecState    one trained wrapper, one freshly built wrapper of the    *)
(*                same architecture, and the caller's mapping object;      *)
(*   SpecSharded  the sharded export of the trained wrapper;               *)
(*   SpecForward  AdapterParallelAdd.forward.                              *)
(***************************************************************************)
EXTENDS Integers, Sequences, FiniteSets, TLC

VARIABLES
    target_modules,  \* LoRA.target_modules
    tp_size,         \* parallel_state's tensor-model-parallel world size
    model,           \* the module tree, depth first: a sequence of modules
    err,             \* the exception the last operation ended in, or "none"
    applied,         \* how many times model_fn has run on the model
    w_base,          \* trained wrapper: to_wrap's parameters, name -> value
    w_adapter,       \* trained wrapper: adapter's parameters, name -> value
    f_base,          \* fresh wrapper: to_wrap's parameters
    f_adapter,       \* fresh wrapper: adapter's parameters
    sd,              \* the mapping object the caller holds
    sharded,         \* the last result of sharded_state_dict
    last,            \* the last operation and its arguments
    fwd              \* the record of the last forward call

vars == <<target_modules, tp_size, model, err, applied,
          w_base, w_adapter, f_base, f_adapter, sd, sharded, last, fwd>>

peftVars == <<target_modules, tp_size, model, applied>>
stateVars == <<w_base, w_adapter, f_base, f_adapter, sd, sharded>>

-----------------------------------------------------------------------------
(* Bounds *)

MaxModules == 2      \* modules in a model tree
MaxFeat == 2         \* local in_features / out_features range over 1..MaxFeat
MaxApply == 2        \* applications of model_fn to one model

(* Program constants *)

LoraDim == 32        \* LoRA.dim

-----------------------------------------------------------------------------
(* The LoRA policy and the module tree *)

\* lora.py:79, the names of the column-parallel branch
ColumnNames == {"linear_qkv", "linear_fc1"}

\* lora.py:84, the names the else branch is written for
RowNames == {"linear_proj", "linear_fc2"}

\* Modules with in_features / out_features that the lookup does not name,
\* and modules without these attributes.
LinearNames == ColumnNames \cup RowNames \cup {"linear_kv"}
PlainNames == {"input_layernorm"}
ModuleNames == LinearNames \cup PlainNames

\* The world sizes parallel_state can report.
TPSizes == {1, 2, 4, 8}

\* The target lists a LoRA object is built with: the default of lora.py:57,
\* the other documented choices, and lists naming further modules.
TargetLists ==
    { {"linear_qkv", "linear_proj"},
      {"linear_fc1", "linear_fc2"},
      {"linear_qkv", "linear_proj", "linear_fc1", "linear_fc2"},
      {"linear_qkv"},
      {"linear_qkv", "linear_kv"},
      {"linear_proj", "input_layernorm"},
      {} }

\* A module as built by the model's constructor: its parameters are trainable
\* and nothing wraps it.  adapters lists the adapters of the AdapterWrapper
\* layers around the module, innermost first: empty for a bare module.
BaseModule(name, i, o) ==
    [ name |-> name,
      has_features |-> name \in LinearNames,
      in_features |-> IF name \in LinearNames THEN i ELSE 0,
      out_features |-> IF name \in LinearNames THEN o ELSE 0,
      requires_grad |-> TRUE,
      adapters |-> << >> ]

IsWrapper(m) == Len(m.adapters) > 0

\* ParallelLinearAdapter(in_features, out_features, dim, ...,
\* input_is_parallel=...): new parameters are trainable.
ParallelLinearAdapter(i, o, dim, input_is_parallel) ==
    [ in_features |-> i,
      out_features |-> o,
      dim |-> dim,
      input_is_parallel |-> input_is_parallel,
      requires_grad |-> TRUE ]

\* AdapterParallelAdd(m, adapter): the module now sits under to_wrap.
AdapterParallelAdd(m, adapter) ==
    [m EXCEPT !.adapters = Append(@, adapter)]

\* m.in_features / m.out_features resolve: AdapterWrapper defines to_wrap and
\* adapter only, so on a wrapper the lookup raises AttributeError.
HasFeatureAttrs(m) == m.has_features /\ ~IsWrapper(m)

\* transform with the adapter sized by the local feature counts.
transform_local_dims(m, name, targets, tp) ==
    IF name \in targets
    THEN IF ~HasFeatureAttrs(m)
         THEN [err |-> "AttributeError", m |-> m]
         ELSE [err |-> "none",
               m |-> AdapterParallelAdd(m,
                       ParallelLinearAdapter(m.in_features, m.out_features,
                           LoraDim, name \notin ColumnNames))]
    ELSE [err |-> "none", m |-> m]

\* LoRA.transform(m, name): the module returned, or the exception raised.
transform(m, name, targets, tp) ==
    IF name \in targets
    THEN IF ~HasFeatureAttrs(m)
         THEN [err |-> "AttributeError", m |-> m]
         ELSE IF name \in ColumnNames
              THEN [err |-> "none",
                    m |-> AdapterParallelAdd(m,
                            ParallelLinearAdapter(m.in_features,
                                m.out_features * tp, LoraDim, FALSE))]
              ELSE [err |-> "none",
                    m |-> AdapterParallelAdd(m,
                            ParallelLinearAdapter(m.in_features * tp,
                                m.out_features, LoraDim, TRUE))]
    ELSE [err |-> "none", m |-> m]

\* MegatronParallel.freeze(): every parameter of the model, the adapters'
\* included, stops being trainable.
freeze(nodes) ==
    [i \in 1..Len(nodes) |->
        [nodes[i] EXCEPT
            !.requires_grad = FALSE,
            !.adapters = [k \in 1..Len(nodes[i].adapters) |->
                            [nodes[i].adapters[k] EXCEPT !.requires_grad = FALSE]]]]

\* MegatronParallel.walk(wrap_fn): every module in depth-first order is handed
\* to wrap_fn once and replaced by what it returns; an exception ends the walk
\* and leaves the replacements made so far in place.
RECURSIVE walk(_, _, _, _)
walk(nodes, i, targets, tp) ==
    IF i > Len(nodes)
    THEN [err |-> "none", nodes |-> nodes]
    ELSE LET r == transform(nodes[i], nodes[i].name, targets, tp)
         IN  IF r.err # "none"
             THEN [err |-> r.err, nodes |-> nodes]
             ELSE walk([nodes EXCEPT ![i] = r.m], i + 1, targets, tp)

\* model_fn with its two statements in the other order.
model_fn_walk_then_freeze(nodes, targets, tp) ==
    LET r == walk(nodes, 1, targets, tp)
    IN  [err |-> r.err, nodes |-> freeze(r.nodes)]

\* peft_model_transform(wrap_fn).model_fn(m): freeze, then walk.
model_fn(nodes, targets, tp) ==
    walk(freeze(nodes), 1, targets, tp)

-----------------------------------------------------------------------------
(* Values of the other state machines' variables while one runs *)

EmptyMap == [k \in {} |-> 0]
NoCall == [op |-> "none", prefix |-> "", strict |-> FALSE,
           offsets |-> << >>, metadata |-> "None"]
NoForward == [variant |-> "none", weight |-> 0, bias |-> 0, lora |-> 0,
              calls |-> 0, x |-> 0, base_calls |-> 0, adapter_in |-> 0,
              out |-> 0, out_bias |-> 0]

IdleState ==
    /\ w_base = EmptyMap /\ w_adapter = EmptyMap
    /\ f_base = EmptyMap /\ f_adapter = EmptyMap
    /\ sd = EmptyMap /\ sharded = EmptyMap
IdlePeft ==
    /\ target_modules = {} /\ tp_size = 1 /\ model = << >> /\ applied = 0

-----------------------------------------------------------------------------
(* Spec: the model tree under model_fn *)

Models ==
    UNION { [1..n -> ModuleNames] : n \in 1..MaxModules }

Init ==
    /\ target_modules \in TargetLists
    /\ tp_size \in TPSizes
    /\ \E names \in Models, i \in 1..MaxFeat, o \in 1..MaxFeat :
          model = [k \in 1..Len(names) |-> BaseModule(names[k], i, o)]
    /\ err = "none"
    /\ applied = 0
    /\ IdleState
    /\ last = NoCall
    /\ fwd = NoForward

\* The trainer applies the model transform.
Apply ==
    /\ applied < MaxApply
    /\ LET r == model_fn(model, target_modules, tp_size)
       IN  /\ model' = r.nodes
           /\ err' = r.err
    /\ applied' = applied + 1
    /\ UNCHANGED <<target_modules, tp_size, stateVars, last, fwd>>

\* The process group is re-initialised with another world size.
SetWorldSize ==
    /\ \E t \in TPSizes : t # tp_size /\ tp_size' = t
    /\ UNCHANGED <<target_modules, model, err, applied, stateVars, last, fwd>>

Next == Apply \/ SetWorldSize

Spec == Init /\ [][Next]_vars

-----------------------------------------------------------------------------
(* State mappings *)

\* A mapping's value: a tensor, or a nested mapping of tensors.
Tensor(v) == [isDict |-> FALSE, v |-> v, d |-> EmptyMap]
Dict(d) == [isDict |-> TRUE, v |-> 0, d |-> d]

\* dict[key] = val
Put(map, key, val) ==
    [k \in DOMAIN map \cup {key} |-> IF k = key THEN val ELSE map[k]]

\* dict.update(other)
Update(map, other) ==
    [k \in DOMAIN map \cup DOMAIN other |->
        IF k \in DOMAIN other THEN other[k] ELSE map[k]]

\* dict.pop(key), the mapping left behind
Without(map, key) == [k \in DOMAIN map \ {key} |-> map[k]]

\* The key load_state_dict looks up and pops.
ReservedKey == "adapters"

\* nn.Module.state_dict(destination, prefix, keep_vars) of a sub-module:
\* every parameter is entered under prefix + name, and destination is returned.
module_state_dict(params, destination, prefix) ==
    Update(destination,
           [k \in {prefix \o n : n \in DOMAIN params} |->
               Tensor(params[CHOOSE n \in DOMAIN params : prefix \o n = k])])

\* AdapterWrapper.state_dict(destination, prefix): destination is EmptyMap for
\* None.  main_state_dict is the destination object itself, so the adapters
\* entry is part of what is returned.
state_dict(base, adapter, destination, prefix) ==
    LET main_state_dict == module_state_dict(base, destination, prefix)
        adapter_state_dict == module_state_dict(adapter, EmptyMap, prefix)
    IN  Put(main_state_dict, prefix \o "adapters", Dict(adapter_state_dict))

\* nn.Module.load_state_dict(state_dict, strict) of a sub-module: matching
\* entries are copied, and under strict a missing or unexpected key raises
\* once the copying is done.
module_load_state_dict(params, state, strict) ==
    [ params |-> [k \in DOMAIN params |->
                    IF k \in DOMAIN state /\ ~state[k].isDict
                    THEN state[k].v ELSE params[k]],
      err |-> IF strict /\ DOMAIN state # DOMAIN params
              THEN "RuntimeError" ELSE "none" ]

\* load_state_dict handing the wrapped module the mapping with the adapters
\* entry still in it.
load_state_dict_keeps_key(base, adapter, state, strict) ==
    LET present == ReservedKey \in DOMAIN state
        adapter_state_dict == IF present THEN state[ReservedKey].d ELSE EmptyMap
        rb == module_load_state_dict(base, state, strict)
        ra == module_load_state_dict(adapter, adapter_state_dict, strict)
    IN  IF rb.err # "none"
        THEN [base |-> rb.params, adapter |-> adapter,
              state |-> state, err |-> rb.err]
        ELSE IF DOMAIN adapter_state_dict # {}
             THEN [base |-> rb.params, adapter |-> ra.params,
                   state |-> state, err |-> ra.err]
             ELSE [base |-> rb.params, adapter |-> adapter,
                   state |-> state, err |-> "none"]

\* load_state_dict popping the adapters entry without testing for it.
load_state_dict_requires_key(base, adapter, state, strict) ==
    LET popped == Without(state, ReservedKey)
        rb == module_load_state_dict(base, popped, strict)
    IN  IF ReservedKey \notin DOMAIN state
        THEN [base |-> base, adapter |-> adapter,
              state |-> state, err |-> "KeyError"]
        ELSE IF rb.err # "none"
             THEN [base |-> rb.params, adapter |-> adapter,
                   state |-> popped, err |-> rb.err]
             ELSE LET ra == module_load_state_dict(adapter,
                                state[ReservedKey].d, strict)
                  IN  [base |-> rb.params, adapter |-> ra.params,
                       state |-> popped, err |-> ra.err]

\* AdapterWrapper.load_state_dict(state_dict, strict): the wrapper's
\* parameters and the caller's mapping as the call leaves them.
load_state_dict(base, adapter, state, strict) ==
    LET present == ReservedKey \in DOMAIN state
        adapter_state_dict == IF present THEN state[ReservedKey].d ELSE EmptyMap
        popped == IF present THEN Without(state, ReservedKey) ELSE state
        rb == module_load_state_dict(base, popped, strict)
        ra == module_load_state_dict(adapter, adapter_state_dict, strict)
    IN  IF rb.err # "none"
        THEN [base |-> rb.params, adapter |-> adapter,
              state |-> popped, err |-> rb.err]
        ELSE IF DOMAIN adapter_state_dict # {}
             THEN [base |-> rb.params, adapter |-> ra.params,
                   state |-> popped, err |-> ra.err]
             ELSE [base |-> rb.params, adapter |-> adapter,
                   state |-> popped, err |-> "none"]

\* sharded_state_dict(prefix, sharded_offsets, metadata) of a sub-module:
\* one sharded tensor per parameter, keyed prefix + name.
module_sharded_state_dict(params, prefix, offsets, metadata) ==
    [k \in {prefix \o n : n \in DOMAIN params} |->
        [ key |-> k,
          data |-> params[CHOOSE n \in DOMAIN params : prefix \o n = k],
          offsets |-> offsets,
          metadata |-> metadata ]]

\* sharded_state_dict with the adapter's shards under the wrapper's own prefix.
sharded_state_dict_flat(base, adapter, prefix, offsets, metadata) ==
    Update(Update(EmptyMap,
                  module_sharded_state_dict(base, prefix, offsets, metadata)),
           module_sharded_state_dict(adapter, prefix, offsets, metadata))

\* AdapterWrapper.sharded_state_dict(prefix, sharded_offsets, metadata)
sharded_state_dict(base, adapter, prefix, offsets, metadata) ==
    Update(Update(EmptyMap,
                  module_sharded_state_dict(base, prefix, offsets, metadata)),
           module_sharded_state_dict(adapter, prefix \o "adapter.", offsets, metadata))

-----------------------------------------------------------------------------
(* SpecState: export and import of a wrapper's state *)

MaxVal == 2          \* trained parameter values range over 1..MaxVal

\* Parameter names of the wrapped linear layer and of the adapter.
BaseKeySets == { {"weight"}, {"weight", "bias"} }
AdapterKeySets == { {}, {"linear_in.weight", "linear_out.weight"} }
Prefixes == {"", "module."}
Offsets == { << >>, << <<0, 1, 2>> >> }
Metadata == {"None", "metadata"}

\* What a parent module's state_dict has entered before it reaches the wrapper.
ParentDestination == [k \in {"embedding.weight"} |-> Tensor(1)]

InitState ==
    /\ \E bk \in BaseKeySets, ak \in AdapterKeySets :
          /\ w_base \in [bk -> 1..MaxVal]
          /\ w_adapter \in [ak -> 1..MaxVal]
          /\ f_base = [k \in bk |-> 0]
          /\ f_adapter = [k \in ak |-> 0]
    /\ sd = EmptyMap
    /\ sharded = EmptyMap
    /\ err = "none"
    /\ last = NoCall
    /\ fwd = NoForward
    /\ IdlePeft

\* The trained wrapper exports its state; the caller keeps the mapping.
StateDict(prefix, destination) ==
    /\ sd' = state_dict(w_base, w_adapter, destination, prefix)
    /\ err' = "none"
    /\ last' = [NoCall EXCEPT !.op = "state_dict", !.prefix = prefix]
    /\ UNCHANGED <<peftVars, w_base, w_adapter, f_base, f_adapter, sharded, fwd>>

\* The caller holds a checkpoint of an unwrapped model instead.
BaseCheckpoint ==
    /\ \E K \in SUBSET {"weight", "bias"} :
          \E m \in [K -> 1..MaxVal] : sd' = [k \in K |-> Tensor(m[k])]
    /\ err' = "none"
    /\ last' = [NoCall EXCEPT !.op = "checkpoint"]
    /\ UNCHANGED <<peftVars, w_base, w_adapter, f_base, f_adapter, sharded, fwd>>

\* The fresh wrapper loads the caller's mapping.
LoadStateDict(strict) ==
    /\ LET r == load_state_dict(f_base, f_adapter, sd, strict)
       IN  /\ f_base' = r.base
           /\ f_adapter' = r.adapter
           /\ sd' = r.state
           /\ err' = r.err
    /\ last' = [NoCall EXCEPT !.op = "load_state_dict", !.strict = strict]
    /\ UNCHANGED <<peftVars, w_base, w_adapter, sharded, fwd>>

\* A wrapper of the same architecture is constructed anew.
Rebuild ==
    /\ f_base' = [k \in DOMAIN f_base |-> 0]
    /\ f_adapter' = [k \in DOMAIN f_adapter |-> 0]
    /\ err' = "none"
    /\ last' = [NoCall EXCEPT !.op = "rebuild"]
    /\ UNCHANGED <<peftVars, w_base, w_adapter, sd, sharded, fwd>>

\* The trained wrapper exports its sharded state.
ShardedStateDict(prefix, offsets, metadata) ==
    /\ sharded' = sharded_state_dict(w_base, w_adapter, prefix, offsets, metadata)
    /\ err' = "none"
    /\ last' = [op |-> "sharded_state_dict", prefix |-> prefix, strict |-> FALSE,
                offsets |-> offsets, metadata |-> metadata]
    /\ UNCHANGED <<peftVars, w_base, w_adapter, f_base, f_adapter, sd, fwd>>

NextState ==
    \/ \E p \in Prefixes, d \in {EmptyMap, ParentDestination} : StateDict(p, d)
    \/ BaseCheckpoint
    \/ \E strict \in BOOLEAN : LoadStateDict(strict)
    \/ Rebuild

SpecState == InitState /\ [][NextState]_vars

\* SpecSharded: the sharded export of the same wrappers, which neither reads
\* nor writes the caller's mapping.
NextSharded ==
    \E p \in Prefixes, o \in Offsets, md \in Metadata : ShardedStateDict(p, o, md)

SpecSharded == InitState /\ [][NextSharded]_vars

-----------------------------------------------------------------------------
(* SpecForward: AdapterParallelAdd.forward *)

MaxTensor == 2       \* inputs and weights range over 0..MaxTensor
MaxForward == 3      \* forward calls on one wrapper

\* The wrapped layer returns (output, bias), or ((output, layernorm_output),
\* bias) when it fuses a layer norm and hands back the normalized input.
Variants == {"linear", "layernorm_linear"}

\* Tensors are integers: the layer norm, the wrapped layer's matrix product
\* and the adapter's low-rank path are fixed maps on them.
LayerNorm(x) == 2 * x + 1
Linear(weight, x) == weight * x
Adapter(lora, v) == lora * v

\* self.to_wrap(x): the pair returned; is_tuple tells whether its first
\* component is itself a pair.
to_wrap(m, x) ==
    IF m.variant = "layernorm_linear"
    THEN [is_tuple |-> TRUE, output |-> Linear(m.weight, LayerNorm(x)),
          layernorm_output |-> LayerNorm(x), bias |-> m.bias]
    ELSE [is_tuple |-> FALSE, output |-> Linear(m.weight, x),
          layernorm_output |-> 0, bias |-> m.bias]

\* forward handing the adapter the wrapper's input whatever the wrapped
\* module returned.
forward_adapter_on_input(m, x) ==
    LET r == to_wrap(m, x)
    IN  [ out |-> r.output + Adapter(m.lora, x),
          out_bias |-> r.bias,
          base_calls |-> 1,
          adapter_in |-> x ]

\* AdapterParallelAdd.forward(x): what it returns, how often it called the
\* wrapped module, and what it handed to the adapter.
forward(m, x) ==
    LET r == to_wrap(m, x)
        adapter_in == IF r.is_tuple THEN r.layernorm_output ELSE x
        adapter_output == Adapter(m.lora, adapter_in)
    IN  [ out |-> r.output + adapter_output,
          out_bias |-> r.bias,
          base_calls |-> 1,
          adapter_in |-> adapter_in ]

InitForward ==
    /\ \E v \in Variants, wt \in 1..MaxTensor, b \in 0..MaxTensor, l \in 1..MaxTensor :
          fwd = [NoForward EXCEPT !.variant = v, !.weight = wt, !.bias = b, !.lora = l]
    /\ err = "none"
    /\ last = NoCall
    /\ IdleState
    /\ IdlePeft

Forward(x) ==
    /\ fwd.calls < MaxForward
    /\ LET r == forward(fwd, x)
       IN  fwd' = [fwd EXCEPT !.calls = @ + 1,
                              !.x = x,
                              !.base_calls = r.base_calls,
                              !.adapter_in = r.adapter_in,
                              !.out = r.out,
                              !.out_bias = r.out_bias]
    /\ UNCHANGED <<peftVars, stateVars, err, last>>

NextForward == \E x \in 0..MaxTensor : Forward(x)

SpecForward == InitForward /\ [][NextForward]_vars

-----------------------------------------------------------------------------
(* Properties of Spec *)

\* The parameters of a model: <<i, 0>> is module i's own, <<i, k>> the
\* adapter's of the k-th wrapper around it.
Params(nodes) ==
    UNION { { <<i, k>> : k \in 0..Len(nodes[i].adapters) } : i \in 1..Len(nodes) }

Trainable(nodes, p) ==
    IF p[2] = 0 THEN nodes[p[1]].requires_grad
    ELSE nodes[p[1]].adapters[p[2]].requires_grad

KnownNames == ColumnNames \cup RowNames

\* C1. Freeze invariant: in every application of model_fn, each parameter that
\* existed before it is not trainable afterwards, and the trainable parameters
\* afterwards are exactly those of the adapters the walk created.
FreezeInvariant ==
    [][applied' = applied + 1 =>
        /\ \A p \in Params(model) : ~Trainable(model', p)
        /\ { p \in Params(model') : Trainable(model', p) }
             = Params(model') \ Params(model)
      ]_vars

\* A first application that ended normally, wrapped a module whose adapter is
\* trainable and left another module bare and frozen.
FreezeWitness ==
    /\ applied = 1
    /\ err = "none"
    /\ \E i, j \in 1..Len(model) :
          /\ IsWrapper(model[i])
          /\ model[i].adapters[1].requires_grad
          /\ ~model[i].requires_grad
          /\ ~IsWrapper(model[j])
          /\ ~model[j].requires_grad

\* C4. Dimension symmetry: a module that an application wraps gets an adapter
\* built from its local feature counts and the world size of that moment:
\* (in, out * tp), input not parallel, under a column-style name;
\* (in * tp, out), input parallel, under a row-style name.
DimensionSymmetry ==
    [][applied' = applied + 1 =>
        \A i \in 1..Len(model) :
            (~IsWrapper(model[i]) /\ IsWrapper(model'[i])) =>
                LET m == model[i]
                    a == model'[i].adapters[1]
                IN  /\ m.name \in ColumnNames =>
                          /\ a.in_features = m.in_features
                          /\ a.out_features = m.out_features * tp_size
                          /\ a.input_is_parallel = FALSE
                    /\ m.name \in RowNames =>
                          /\ a.in_features = m.in_features * tp_size
                          /\ a.out_features = m.out_features
                          /\ a.input_is_parallel = TRUE
      ]_vars

\* A column-style and a row-style module wrapped under world size 4, with
\* local feature counts that differ.
DimensionWitness ==
    /\ tp_size = 4
    /\ \E i, j \in 1..Len(model) :
          /\ model[i].name = "linear_qkv" /\ IsWrapper(model[i])
          /\ model[i].in_features = 1 /\ model[i].out_features = 2
          /\ model[i].adapters[1].in_features = 1
          /\ model[i].adapters[1].out_features = 8
          /\ model[j].name = "linear_proj" /\ IsWrapper(model[j])
          /\ model[j].adapters[1].in_features = 4
          /\ model[j].adapters[1].out_features = 2

\* C5. Unrecognized target fails fast: a module whose name is a target but
\* has no known layout class is never wrapped, and an application that meets
\* one ends in a configuration error.
UnrecognizedTargetFailsFast ==
    [][applied' = applied + 1 =>
        \A i \in 1..Len(model) :
            (model[i].name \in target_modules \ KnownNames) =>
                /\ model'[i].adapters = model[i].adapters
                /\ err' # "none"
      ]_vars

\* C6. No double wrap: a second application never nests a wrapper in a
\* wrapper, and on every module already wrapped it either changes nothing or
\* ends in a DoubleWrapError.
NoDoubleWrap ==
    [][(applied >= 1 /\ applied' = applied + 1) =>
        \A i \in 1..Len(model) :
            /\ Len(model'[i].adapters) <= 1
            /\ IsWrapper(model[i]) =>
                  \/ model'[i] = model[i]
                  \/ err' = "DoubleWrapError"
      ]_vars

-----------------------------------------------------------------------------
(* Properties of SpecState *)

\* C2. State round trip: loading the result of w.state_dict() into a wrapper
\* of the same architecture succeeds and leaves it with w's values, for the
\* wrapped module's parameters and for the adapter's.
StateRoundTrip ==
    [][\A strict \in BOOLEAN :
        (LoadStateDict(strict) /\ sd = state_dict(w_base, w_adapter, EmptyMap, "")) =>
            /\ err' = "none"
            /\ f_base' = w_base
            /\ f_adapter' = w_adapter
      ]_vars

\* A strict load that ended normally and left the fresh wrapper, adapter
\* included, with the trained wrapper's values.
RoundTripWitness ==
    /\ last.op = "load_state_dict"
    /\ last.strict
    /\ err = "none"
    /\ DOMAIN w_adapter # {}
    /\ f_base = w_base
    /\ f_adapter = w_adapter

\* C3. Namespace isolation: after state_dict with any prefix, no adapter
\* parameter is a top-level entry of the mapping, and the adapter's sub-state
\* sits under one key, the key load_state_dict looks up and strips.
NamespaceIsolation ==
    last.op = "state_dict" =>
        /\ \A n \in DOMAIN w_adapter : (last.prefix \o n) \notin DOMAIN sd
        /\ { k \in DOMAIN sd : sd[k].isDict } = {ReservedKey}

\* C7. Backward compatibility: a load of a mapping without the adapters entry
\* leaves every adapter parameter as it was, ends as the wrapped module's own
\* load of the mapping ends, and loads the wrapped module's state, whether
\* strict or not.
BackwardCompatibility ==
    [][\A strict \in BOOLEAN :
        (LoadStateDict(strict) /\ ReservedKey \notin DOMAIN sd) =>
            /\ f_adapter' = f_adapter
            /\ (~strict \/ DOMAIN sd = DOMAIN f_base) => err' = "none"
            /\ \A k \in DOMAIN f_base :
                  f_base'[k] = IF k \in DOMAIN sd THEN sd[k].v ELSE f_base[k]
      ]_vars

\* A strict load that ended normally with the wrapped module loaded and the
\* adapter still at its initial values.
BackwardWitness ==
    /\ last.op = "load_state_dict"
    /\ last.strict
    /\ err = "none"
    /\ DOMAIN f_adapter # {}
    /\ \A k \in DOMAIN f_adapter : f_adapter[k] = 0
    /\ \A k \in DOMAIN f_base : f_base[k] = MaxVal

\* C8. Export and import are pure: state_dict leaves the wrapper's parameters
\* alone and load_state_dict leaves the caller's mapping as it was.
ExportImportPure ==
    [][/\ \A p \in Prefixes, d \in {EmptyMap, ParentDestination} :
             StateDict(p, d) => (w_base' = w_base /\ w_adapter' = w_adapter)
       /\ \A strict \in BOOLEAN : LoadStateDict(strict) => sd' = sd
      ]_vars

-----------------------------------------------------------------------------
(* Property of SpecSharded *)

\* C9. Sharded namespacing: the result of sharded_state_dict is the wrapped
\* module's sharded state under the prefix together with the adapter's under
\* prefix + "adapter.", each with the offsets and metadata of the call.
ShardedNamespacing ==
    last.op = "sharded_state_dict" =>
        LET P == last.prefix
            entry(k, v) == [key |-> k, data |-> v,
                            offsets |-> last.offsets, metadata |-> last.metadata]
        IN  /\ DOMAIN sharded =
                  { P \o n : n \in DOMAIN w_base } \cup
                  { (P \o "adapter.") \o n : n \in DOMAIN w_adapter }
            /\ \A n \in DOMAIN w_base :
                  sharded[P \o n] = entry(P \o n, w_base[n])
            /\ \A n \in DOMAIN w_adapter :
                  sharded[(P \o "adapter.") \o n]
                      = entry((P \o "adapter.") \o n, w_adapter[n])

\* A sharded export under a prefix, with offsets and metadata, of a wrapper
\* whose adapter has parameters.
ShardedWitness ==
    /\ last.op = "sharded_state_dict"
    /\ last.prefix = "module."
    /\ last.offsets # << >>
    /\ last.metadata = "metadata"
    /\ "module.adapter.linear_in.weight" \in DOMAIN sharded
    /\ "module.bias" \in DOMAIN sharded

-----------------------------------------------------------------------------
(* Properties of SpecForward *)

\* C10. Forward combination: forward calls the wrapped module once, returns
\* its bias unchanged, and returns its output plus the adapter's output, the
\* adapter being applied to the normalized tensor when the wrapped module
\* hands one back and to the input otherwise.
ForwardCombination ==
    [][\A x \in 0..MaxTensor :
        Forward(x) =>
            LET normed == fwd.variant = "layernorm_linear"
                seen == IF normed THEN LayerNorm(x) ELSE x
            IN  /\ fwd'.base_calls = 1
                /\ fwd'.out_bias = fwd.bias
                /\ fwd'.adapter_in = seen
                /\ fwd'.out = fwd.weight * seen + fwd.lora * seen
      ]_vars

\* A forward through a wrapped module that hands back its normalized input.
ForwardWitness ==
    /\ fwd.calls >= 1
    /\ fwd.variant = "layernorm_linear"
    /\ fwd.x = 1
    /\ fwd.adapter_in = 3
    /\ fwd.out = 3 * fwd.weight + 3 * fwd.lora
    /\ fwd.out_bias = fwd.bias

====
